---- MODULE Spec2Model ----
(***************************************************************************)
(* Model of samples/sessions/introduction-to-sessions.ipynb: a client that *)
(* opens a session on a backend with a `with` statement, submits jobs with *)
(* backend.run, waits for them with job_monitor, leaves the scope and then *)
(* lists the session's jobs; and the Azure Quantum service behaviour the   *)
(* notebook documents (job failure policy, cancellation attempt, rejection *)
(* of submissions to a closed session).                                    *)
(***************************************************************************)
EXTENDS Integers, Sequences, FiniteSets, TLC

\* provider.get_backend(...) names; the job failure policies: the default one
\* (a job failure closes the session) and SessionJobFailurePolicy.CONTINUE
Backends == {"ionq.simulator", "quantinuum.sim.h1-1e", "rigetti.sim.qvm"}
Policies == {"Abort", "Continue"}
DefaultPolicy == "Abort"

\* the walkthrough submits the circuit three times
NumJobs == 3

\* bounds of the general client (SpecSvc): jobs submitted, sessions opened
MaxJobs == 2
MaxSessions == 2

Terminal == {"succeeded", "failed", "cancelled"}
NonTerminal == {"queued", "running"}

VARIABLES
    backend,       \* the notebook's `backend` variable
    sessions,      \* service: sequence of [id, target, policy, status]
    jobs,          \* service: sequence of [name, target, session, status]
    session,       \* the notebook's `session` variable: a session id, 0 = unbound
    handles,       \* job1, job2, ...: indices of the jobs returned by backend.run in the scope
    pc,            \* the client's position
    k,             \* number of backend.run calls made in the current scope
    outcome,       \* result of the last backend.run call
    session_jobs   \* the notebook's `session_jobs` variable: result of list_jobs

vars == <<backend, sessions, jobs, session, handles, pc, k, outcome, session_jobs>>

----------------------------------------------------------------------------
\* Helpers

SessionIndex(ss, sid) == CHOOSE i \in DOMAIN ss : ss[i].id = sid

SessionById(ss, sid) == ss[SessionIndex(ss, sid)]

NewSessionId_Reused(ss) == 1

\* each session has a unique ID
NewSessionId(ss) == Len(ss) + 1

Accepts_Always(ss, sid) == TRUE

\* new jobs submitted to a closed session are rejected
Accepts(ss, sid) == SessionById(ss, sid).status = "open"

ClosesOnFailure_Never(p) == FALSE

ClosesOnFailure_Always(p) == TRUE

\* job failures cause sessions to be closed by default; CONTINUE changes this
ClosesOnFailure(p) == p # "Continue"

Pending_AllOfSession(js, sid) == {i \in DOMAIN js : js[i].session = sid}

\* pending jobs already submitted to the target, of one session
Pending(js, sid) ==
    {i \in DOMAIN js : js[i].session = sid /\ js[i].status \in NonTerminal}

ListJobs_Workspace(js, sid) == DOMAIN js

\* session.list_jobs(): the jobs carrying the session's id
ListJobs(js, sid) == {i \in DOMAIN js : js[i].session = sid}

SetStatus(js, S, st) ==
    [i \in DOMAIN js |-> IF i \in S THEN [js[i] EXCEPT !.status = st] ELSE js[i]]

CloseSession(ss, sid) ==
    [i \in DOMAIN ss |-> IF ss[i].id = sid THEN [ss[i] EXCEPT !.status = "closed"] ELSE ss[i]]

----------------------------------------------------------------------------
\* Initial state: the first code cells have run, `backend` is selected

Init ==
    /\ backend \in Backends
    /\ sessions = <<>>
    /\ jobs = <<>>
    /\ session = 0
    /\ handles = <<>>
    /\ pc = "start"
    /\ k = 0
    /\ outcome = "none"
    /\ session_jobs = {}

----------------------------------------------------------------------------
\* Client steps

\* with backend.open_session(name=..., job_failure_policy=p) as session:
OpenSession(p) ==
    /\ pc \in {"start", "listed"}
    /\ Len(sessions) < MaxSessions
    /\ sessions' = Append(sessions, [id |-> NewSessionId(sessions), target |-> backend,
                                     policy |-> p, status |-> "open"])
    /\ session' = NewSessionId(sessions)
    /\ handles' = <<>>
    /\ k' = 0
    /\ outcome' = "none"
    /\ pc' = "body"
    /\ UNCHANGED <<backend, jobs, session_jobs>>

\* job = backend.run(circuit=circuit, shots=100, job_name="Job k+1"),
\* followed by job_monitor(job) when wait is TRUE
Run(wait) ==
    /\ pc = "body"
    /\ k' = k + 1
    /\ IF Accepts(sessions, session)
       THEN /\ jobs' = Append(jobs, [name |-> k + 1, target |-> backend,
                                     session |-> session, status |-> "queued"])
            /\ handles' = Append(handles, Len(jobs) + 1)
            /\ outcome' = "accepted"
            /\ pc' = IF wait THEN "monitor" ELSE "body"
       ELSE /\ outcome' = "rejected"
            /\ pc' = "raised"
            /\ UNCHANGED <<jobs, handles>>
    /\ UNCHANGED <<backend, sessions, session, session_jobs>>

Monitor_NoWait ==
    /\ pc = "monitor"
    /\ pc' = "body"
    /\ UNCHANGED <<backend, sessions, jobs, session, handles, k, outcome, session_jobs>>

\* job_monitor(job) returns once the job is in a final status
Monitor ==
    /\ pc = "monitor"
    /\ jobs[handles[Len(handles)]].status \in Terminal
    /\ pc' = "body"
    /\ UNCHANGED <<backend, sessions, jobs, session, handles, k, outcome, session_jobs>>

\* job_monitor(job) raises while polling (interrupt, connectivity)
MonitorRaise ==
    /\ pc = "monitor"
    /\ pc' = "raised"
    /\ UNCHANGED <<backend, sessions, jobs, session, handles, k, outcome, session_jobs>>

WithExit_ErrorLeak ==
    /\ pc \in {"body", "raised"}
    /\ sessions' = IF pc = "body" THEN CloseSession(sessions, session) ELSE sessions
    /\ pc' = "after"
    /\ UNCHANGED <<backend, jobs, session, handles, k, outcome, session_jobs>>

\* leaving the with block, normally or by an exception: the session is closed
WithExit ==
    /\ pc \in {"body", "raised"}
    /\ sessions' = CloseSession(sessions, session)
    /\ pc' = "after"
    /\ UNCHANGED <<backend, jobs, session, handles, k, outcome, session_jobs>>

\* session_jobs = session.list_jobs()
List ==
    /\ pc = "after"
    /\ session_jobs' = ListJobs(jobs, session)
    /\ pc' = "listed"
    /\ UNCHANGED <<backend, sessions, jobs, session, handles, k, outcome>>

\* backend = ... ("Set the backend you want to use here"), re-run between sessions
SelectBackend(b) ==
    /\ pc = "listed"
    /\ Len(sessions) < MaxSessions
    /\ b # backend
    /\ backend' = b
    /\ UNCHANGED <<sessions, jobs, session, handles, pc, k, outcome, session_jobs>>

----------------------------------------------------------------------------
\* Service steps

JobStart(j) ==
    /\ jobs[j].status = "queued"
    /\ jobs' = SetStatus(jobs, {j}, "running")
    /\ UNCHANGED <<backend, sessions, session, handles, pc, k, outcome, session_jobs>>

JobSucceed(j) ==
    /\ jobs[j].status = "running"
    /\ jobs' = SetStatus(jobs, {j}, "succeeded")
    /\ UNCHANGED <<backend, sessions, session, handles, pc, k, outcome, session_jobs>>

\* a job fails; under the default policy the session is closed and the service
\* attempts to cancel the session's pending jobs (C: those it manages to cancel)
JobFail(j, C) ==
    /\ jobs[j].status = "running"
    /\ LET sid == jobs[j].session
           failed == SetStatus(jobs, {j}, "failed")
       IN IF ClosesOnFailure(SessionById(sessions, sid).policy)
          THEN /\ C \subseteq Pending(failed, sid)
               /\ jobs' = SetStatus(failed, C, "cancelled")
               /\ sessions' = CloseSession(sessions, sid)
          ELSE /\ C = {}
               /\ jobs' = failed
               /\ UNCHANGED sessions
    /\ UNCHANGED <<backend, session, handles, pc, k, outcome, session_jobs>>

Service ==
    \E j \in DOMAIN jobs :
        \/ JobStart(j)
        \/ JobSucceed(j)
        \/ \E C \in SUBSET (DOMAIN jobs) : JobFail(j, C)

----------------------------------------------------------------------------
\* The walkthrough: one session, three submissions, each awaited

WalkOpen == \E p \in Policies : pc = "start" /\ OpenSession(p)

WalkRun == k < NumJobs /\ Run(TRUE)

WalkExit == (pc = "raised" \/ k = NumJobs) /\ WithExit

Next ==
    \/ WalkOpen
    \/ WalkRun
    \/ Monitor
    \/ MonitorRaise
    \/ WalkExit
    \/ List
    \/ Service

Spec == Init /\ [][Next]_vars

\* The general client: any number of sessions and submissions within the
\* bounds, job_monitor optional, scope left at any point
SvcOpen == \E p \in Policies : OpenSession(p)

SvcSelect == \E b \in Backends : SelectBackend(b)

SvcRun == \E wait \in BOOLEAN : Len(jobs) < MaxJobs /\ Run(wait)

NextSvc ==
    \/ SvcOpen
    \/ SvcRun
    \/ Monitor
    \/ MonitorRaise
    \/ WithExit
    \/ List
    \/ SvcSelect
    \/ Service

SpecSvc == Init /\ [][NextSvc]_vars

----------------------------------------------------------------------------
\* Shorthands for the properties

PolicyOf(sid) == SessionById(sessions, sid).policy

StatusOf(sid) == SessionById(sessions, sid).status

HasFailed(js, sid) == \E i \in DOMAIN js : js[i].session = sid /\ js[i].status = "failed"

InScope == pc \in {"body", "monitor", "raised"}

\* job j fails in this step
FailsNow(j) == jobs[j].status # "failed" /\ jobs'[j].status = "failed"

\* the step is a backend.run call
RunsNow == pc = "body" /\ k' = k + 1

Range(f) == {f[i] : i \in DOMAIN f}

Rank(st) == IF st = "queued" THEN 0 ELSE IF st = "running" THEN 1 ELSE 2

----------------------------------------------------------------------------
\* C1: under the default failure policy, a session one of whose jobs has
\* failed is closed.
C1_FailureClosesSession ==
    \A s \in DOMAIN sessions :
        (sessions[s].policy = DefaultPolicy /\ HasFailed(jobs, sessions[s].id))
            => sessions[s].status = "closed"

\* a job of a default-policy session failed while the client is still inside the scope
C1_Witness ==
    /\ InScope
    /\ PolicyOf(session) = DefaultPolicy
    /\ HasFailed(jobs, session)
    /\ StatusOf(session) = "closed"

\* C2: under the default failure policy, a backend.run call made once a job of
\* the session has failed is rejected and leaves the session's jobs unchanged.
C2_RejectedAfterFailure ==
    [][(RunsNow /\ PolicyOf(session) = DefaultPolicy /\ HasFailed(jobs, session))
           => (/\ outcome' = "rejected"
               /\ pc' = "raised"
               /\ ListJobs(jobs', session') = ListJobs(jobs, session)
               /\ Len(jobs') = Len(jobs))]_vars

\* a submission was rejected after a failure in a default-policy session
C2_Witness ==
    /\ pc = "raised"
    /\ outcome = "rejected"
    /\ PolicyOf(session) = DefaultPolicy
    /\ HasFailed(jobs, session)
    /\ k = Len(handles) + 1

\* C3 as claimed: under the default failure policy, a job that was pending when
\* a job of its session failed never reaches succeeded.
C3_PendingNeverSucceeds ==
    [][\A i \in DOMAIN jobs :
          (jobs[i].status \in NonTerminal /\ jobs'[i].status = "succeeded")
              => ~(PolicyOf(jobs[i].session) = DefaultPolicy
                   /\ HasFailed(jobs, jobs[i].session))]_vars

\* C3 as amended: under the default failure policy, when a job of a session
\* fails the service attempts to cancel the session's other pending jobs: each
\* of them is cancelled in that step or keeps its status; a job is cancelled
\* only in such a step and only while pending; a cancelled job stays cancelled.
C3_CancelAttempt ==
    [][\A i \in DOMAIN jobs :
          /\ (jobs[i].status # "cancelled" /\ jobs'[i].status = "cancelled")
                 => /\ jobs[i].status \in NonTerminal
                    /\ PolicyOf(jobs[i].session) = DefaultPolicy
                    /\ \E j \in DOMAIN jobs \ {i} :
                           jobs[j].session = jobs[i].session /\ FailsNow(j)
          /\ (\E j \in DOMAIN jobs \ {i} :
                  /\ jobs[j].session = jobs[i].session
                  /\ FailsNow(j)
                  /\ PolicyOf(jobs[j].session) = DefaultPolicy)
                 => jobs'[i].status \in {"cancelled", jobs[i].status}
          /\ jobs[i].status = "cancelled" => jobs'[i].status = "cancelled"]_vars

\* a default-policy session with a failed job and a job cancelled by the attempt
C3_Witness ==
    \E i, j \in DOMAIN jobs :
        /\ jobs[i].session = jobs[j].session
        /\ PolicyOf(jobs[i].session) = DefaultPolicy
        /\ jobs[j].status = "failed"
        /\ jobs[i].status = "cancelled"

\* C4: once the with block has been left, normally or by an error, the session
\* it opened is closed.
C4_ClosedAfterScope ==
    pc \in {"after", "listed"} => StatusOf(session) = "closed"

\* the scope was left normally after three accepted submissions that all succeeded
C4_Witness ==
    /\ pc = "after"
    /\ Len(handles) = NumJobs
    /\ \A i \in Range(handles) : jobs[i].status = "succeeded"
    /\ StatusOf(session) = "closed"

\* the scope was left by an error although no job had failed
C4_WitnessError ==
    /\ pc = "after"
    /\ Len(handles) < NumJobs
    /\ ~HasFailed(jobs, session)
    /\ StatusOf(session) = "closed"

\* C5: session.list_jobs() after the scope returns exactly the jobs that
\* backend.run returned inside the scope: N accepted submissions, N listed
\* jobs, named Job 1 .. Job N, and no job of another session.
C5_ListedExactlySubmitted ==
    pc = "listed" =>
        /\ session_jobs = Range(handles)
        /\ Cardinality(session_jobs) = Len(handles)
        /\ {jobs[i].name : i \in session_jobs} = 1..Len(handles)

\* the jobs of a second session are listed while the first session has jobs too
C5_Witness ==
    /\ pc = "listed"
    /\ session_jobs # {}
    /\ \E i \in DOMAIN jobs : jobs[i].session # session

\* C6: under the CONTINUE policy a job failure leaves the session as it is
\* (open), and a backend.run call made in the scope after a failure is accepted
\* and its job carries the session's id.
C6_ContinueKeepsOpen ==
    [][/\ \A j \in DOMAIN jobs :
              (FailsNow(j) /\ PolicyOf(jobs[j].session) = "Continue")
                  => sessions' = sessions
       /\ (RunsNow /\ PolicyOf(session) = "Continue" /\ HasFailed(jobs, session))
              => /\ StatusOf(session) = "open"
                 /\ outcome' = "accepted"
                 /\ jobs' = Append(jobs, jobs'[Len(jobs')])
                 /\ jobs'[Len(jobs')].session = session
                 /\ ListJobs(jobs', session) = ListJobs(jobs, session) \cup {Len(jobs')}]_vars

\* in a CONTINUE session a job has just been accepted after an earlier one failed
C6_Witness ==
    /\ pc = "monitor"
    /\ PolicyOf(session) = "Continue"
    /\ StatusOf(session) = "open"
    /\ outcome = "accepted"
    /\ Len(handles) >= 2
    /\ jobs[handles[Len(handles)]].status = "queued"
    /\ jobs[handles[Len(handles)]].session = session
    /\ \E i \in 1..(Len(handles) - 1) : jobs[handles[i]].status = "failed"

\* C7: session ids are unique; every job carries the id of exactly one session,
\* the one whose scope it was accepted in; the jobs of one session all went to
\* that session's single target.
C7_SessionIdOnJobs ==
    /\ \A a, b \in DOMAIN sessions : a # b => sessions[a].id # sessions[b].id
    /\ \A i \in DOMAIN jobs :
           /\ Cardinality({s \in DOMAIN sessions : sessions[s].id = jobs[i].session}) = 1
           /\ jobs[i].target = SessionById(sessions, jobs[i].session).target
    /\ \A h \in Range(handles) : jobs[h].session = session
    /\ \A i, j \in DOMAIN jobs :
           jobs[i].session = jobs[j].session => jobs[i].target = jobs[j].target

\* two sessions on different targets, each with a job of its own
C7_Witness ==
    \E i, j \in DOMAIN jobs :
        /\ jobs[i].session # jobs[j].session
        /\ jobs[i].target # jobs[j].target

\* C8: a job starts queued and its status only moves forward along
\* queued -> running -> succeeded / failed / cancelled; the three final
\* statuses never change again.
C8_StatusMovesForward ==
    [][/\ \A i \in DOMAIN jobs :
              /\ Rank(jobs'[i].status) >= Rank(jobs[i].status)
              /\ jobs[i].status \in Terminal => jobs'[i].status = jobs[i].status
       /\ \A i \in DOMAIN jobs' \ DOMAIN jobs : jobs'[i].status = "queued"]_vars

\* one job has succeeded and another has failed
C8_Witness ==
    \E i, j \in DOMAIN jobs :
        jobs[i].status = "succeeded" /\ jobs[j].status = "failed"

\* C9: in the walkthrough Job k+1 is submitted only once Job k is final: every
\* job but the last submitted one is in a final status, so at most one job is
\* queued or running, and the jobs are Job 1, Job 2, Job 3 in this order.
C9_Sequential ==
    /\ \A i \in DOMAIN jobs : i < Len(jobs) => jobs[i].status \in Terminal
    /\ Cardinality({i \in DOMAIN jobs : jobs[i].status \in NonTerminal}) <= 1
    /\ Len(jobs) <= NumJobs
    /\ \A i \in DOMAIN jobs : jobs[i].name = i

\* Job 3 is running after Job 1 and Job 2 became final
C9_Witness ==
    /\ Len(jobs) = NumJobs
    /\ jobs[NumJobs].status = "running"
    /\ \A i \in 1..(NumJobs - 1) : jobs[i].status \in Terminal

\* C10: in the walkthrough under the default policy the session's jobs are
\* Job 1 .. Job n for some n <= 3, only the last of them can be failed, every
\* job before a failed one succeeded, and none is cancelled.
C10_FailedIsLast ==
    (session # 0 /\ PolicyOf(session) = DefaultPolicy) =>
        LET mine == ListJobs(jobs, session)
        IN /\ mine = 1..Len(jobs)
           /\ Len(jobs) <= NumJobs
           /\ \A i \in mine : jobs[i].name = i
           /\ \A i \in mine : jobs[i].status = "failed" => i = Len(jobs)
           /\ \A i, j \in mine :
                  (i < j /\ jobs[j].status = "failed") => jobs[i].status = "succeeded"
           /\ \A i \in mine : jobs[i].status # "cancelled"

\* Job 2 failed after Job 1 succeeded and the submission of Job 3 was rejected
C10_Witness ==
    /\ session # 0
    /\ PolicyOf(session) = DefaultPolicy
    /\ Len(jobs) = 2
    /\ jobs[1].status = "succeeded"
    /\ jobs[2].status = "failed"
    /\ outcome = "rejected"

TypeOK ==
    /\ backend \in Backends
    /\ session \in 0..MaxSessions
    /\ pc \in {"start", "body", "monitor", "raised", "after", "listed"}
    /\ outcome \in {"none", "accepted", "rejected"}
    /\ \A i \in DOMAIN jobs : jobs[i].status \in Terminal \cup NonTerminal
    /\ \A i \in DOMAIN sessions : sessions[i].status \in {"open", "closed"}
====
